---- MODULE Spec2Model ----
(***************************************************************************)
(* Model of Cleaning_dataset_to_remove_100000.py: the chunked CSV cleaner  *)
(* (_state_district_columns, _write_log, _process_file, main).             *)
(*                                                                         *)
(* Text is modelled at character level: a string is a sequence of          *)
(* one-character strings, so that lower(), the substring test and string   *)
(* equality are computed rather than assumed.  A text file is the sequence *)
(* of its lines; a line is a record [sep, cells].                          *)
(***************************************************************************)
EXTENDS Naturals, Sequences, FiniteSets

(* ----------------------------- bounds ---------------------------------- *)
MaxRows == 2        \* data rows per source file
MaxFiles == 2       \* entries under the data directory
MaxRuns == 2        \* consecutive runs of the script
MaxCols == 3        \* header length in the column-detection specification
SmallChunk == 1     \* scaled-down chunk sizes 1..SmallChunk, next to CHUNKSIZE

(* --------------------------- program constants ------------------------- *)
CHUNKSIZE == 100000

Sentinel == <<"1", "0", "0", "0", "0", "0">>
StateWord == <<"s", "t", "a", "t", "e">>
DistrictWord == <<"d", "i", "s", "t", "r", "i", "c", "t">>
CsvSuffix == <<".", "c", "s", "v">>
FilePrefix == <<"F", "I", "L", "E", ":", " ">>
None == <<>>

(* ------------------------------ strings -------------------------------- *)
UpperAlpha == <<"A","B","C","D","E","F","G","H","I","J","K","L","M",
                "N","O","P","Q","R","S","T","U","V","W","X","Y","Z">>
LowerAlpha == <<"a","b","c","d","e","f","g","h","i","j","k","l","m",
                "n","o","p","q","r","s","t","u","v","w","x","y","z">>

\* str.lower() on one character
LowerChar(c) ==
    IF \E i \in 1..26 : UpperAlpha[i] = c
    THEN LowerAlpha[CHOOSE i \in 1..26 : UpperAlpha[i] = c]
    ELSE c

\* the characters of the header names
Alphabet == {UpperAlpha[i] : i \in 1..26} \cup {LowerAlpha[i] : i \in 1..26} \cup {"_"}

\* LowerChar, tabulated
LowerTable == [c \in Alphabet |-> LowerChar(c)]

\* str.lower()
Lower(s) == [i \in 1..Len(s) |-> LowerTable[s[i]]]

\* Python's  sub in s
Contains(s, sub) ==
    \E i \in 0..Len(s) :
        /\ i + Len(sub) <= Len(s)
        /\ SubSeq(s, i + 1, i + Len(sub)) = sub

\* the glob pattern *.csv
EndsWith(s, suf) ==
    /\ Len(suf) <= Len(s)
    /\ SubSeq(s, Len(s) - Len(suf) + 1, Len(s)) = suf

Min(a, b) == IF a <= b THEN a ELSE b

(* --------------------- _state_district_columns ------------------------- *)
\* d[k] = v on an insertion-ordered dict, kept as a sequence of <<key, value>>:
\* an existing key keeps its position and takes the new value.
DictSet(d, k, v) ==
    IF \E i \in 1..Len(d) : d[i][1] = k
    THEN [i \in 1..Len(d) |-> IF d[i][1] = k THEN <<k, v>> ELSE d[i]]
    ELSE Append(d, <<k, v>>)

RECURSIVE DictOf(_, _)
\* {c.lower(): c for c in columns[1..n]}
DictOf(columns, n) ==
    IF n = 0 THEN <<>>
    ELSE DictSet(DictOf(columns, n - 1), Lower(columns[n]), columns[n])

LowerCols(columns) == DictOf(columns, Len(columns))

\* next((d[c] for c in d if word in c), None)
NextMatch(d, word) ==
    IF \E i \in 1..Len(d) : Contains(d[i][1], word)
    THEN LET i == CHOOSE j \in 1..Len(d) :
                     /\ Contains(d[j][1], word)
                     /\ \A k \in 1..(j - 1) : ~Contains(d[k][1], word)
         IN  d[i][2]
    ELSE None

StateDistrictColumns(columns) ==
    LET lower_cols == LowerCols(columns)
    IN  <<NextMatch(lower_cols, StateWord), NextMatch(lower_cols, DistrictWord)>>

(* ------------------------------ inputs --------------------------------- *)
ColID == <<"I", "D">>
ColValue == <<"V", "a", "l", "u", "e">>
ColState == <<"S", "t", "a", "t", "e">>
ColSTATE == <<"S", "T", "A", "T", "E">>
ColStateCode == <<"S", "t", "a", "t", "e", "C", "o", "d", "e">>
ColDistrictName == <<"D", "i", "s", "t", "r", "i", "c", "t", "_", "N", "a", "m", "e">>
ColStateDistrict == <<"s", "t", "a", "t", "e", "_", "d", "i", "s", "t", "r", "i", "c", "t">>

\* header names read_csv can deliver; pandas renames exact duplicates, so the
\* names of one header are pairwise different (they may differ in case only)
HeaderNames == {ColID, ColState, ColSTATE, ColStateCode, ColDistrictName, ColStateDistrict}

\* every header of 1..MaxCols pairwise different names
HeaderLists ==
    UNION {{h \in [1..n -> HeaderNames] :
               \A i, j \in 1..n : i # j => h[i] # h[j]} : n \in 1..MaxCols}

\* headers of the source files of the data tree
Headers == {<<ColID, ColValue>>, <<ColStateCode, ColDistrictName>>, <<ColState, ColSTATE>>,
            <<ColStateDistrict>>}

\* cell values (dtype=str: every cell is text)
Values == {Sentinel, <<"1", "2">>}

RowsOf(ncols) == UNION {[1..n -> [1..ncols -> Values]] : n \in 0..MaxRows}

Letters == <<"a", "b", "c", "d", "e">>
CsvName(i) == <<Letters[i]>> \o CsvSuffix
TxtName(i) == <<Letters[i], ".", "t", "x", "t">>

\* a CSV file of any header of Headers and any rows, at position i of the scan
FreeFiles(i) ==
    UNION {{[rel |-> CsvName(i), header |-> h, rows |-> r] : r \in RowsOf(Len(h))}
              : h \in Headers}

\* the files next to it: a CSV file whose only row is removed, and a file that
\* is no CSV file
Companions(i) ==
    {[rel |-> CsvName(i), header |-> <<ColStateDistrict>>, rows |-> <<<<Sentinel>>>>],
     [rel |-> TxtName(i), header |-> <<ColID>>, rows |-> <<>>]}

RECURSIVE CompanionTrees(_)
CompanionTrees(n) ==
    IF n = 0 THEN {<<>>}
    ELSE {Append(t, e) : t \in CompanionTrees(n - 1), e \in Companions(n)}

\* the data trees: up to MaxFiles entries in scan order, at most one of them a
\* file of FreeFiles
TreesOfLen(n) ==
    CompanionTrees(n)
    \cup UNION {{[t EXCEPT ![k] = f] : t \in CompanionTrees(n), f \in FreeFiles(k)}
                   : k \in 1..n}

Trees == UNION {TreesOfLen(n) : n \in 0..MaxFiles}

ChunkSizes == (1..SmallChunk) \cup {CHUNKSIZE}

\* a log left behind by an earlier run
StaleLog == <<[sep |-> "", cells |-> <<FilePrefix, <<"o", "l", "d">> \o CsvSuffix>>]>>

(* ------------------------------- files --------------------------------- *)
Line(sep, cells) == [sep |-> sep, cells |-> cells]
FileLine(rel) == Line("", <<FilePrefix, rel>>)
BlankLine == Line("", <<>>)

\* DataFrame.to_csv(sep=sep, index=False, header=header): the lines written
ToCsv(columns, rows, header, sep) ==
    (IF header THEN <<Line(sep, columns)>> ELSE <<>>)
    \o [i \in 1..Len(rows) |-> Line(sep, rows[i])]

\* open(path, "a") and write: creates the file when it does not exist
AppendFile(fs, path, lines) ==
    IF path \in DOMAIN fs
    THEN [fs EXCEPT ![path] = @ \o lines]
    ELSE [p \in DOMAIN fs \cup {path} |-> IF p = path THEN lines ELSE fs[p]]

\* chunk[col]: position of the column named col
ColIndex(columns, col) == CHOOSE i \in 1..Len(columns) : columns[i] = col

(* ----------------------------- _process_file --------------------------- *)
\* Mask with the district test left out
MaskStateOnly(columns, row, state_col, district_col) ==
    state_col # None /\ row[ColIndex(columns, state_col)] = Sentinel

\* lines 46-50: the removal mask of one row
Mask(columns, row, state_col, district_col) ==
    LET m0 == FALSE
        m1 == IF state_col # None
              THEN m0 \/ (row[ColIndex(columns, state_col)] = Sentinel)
              ELSE m0
        m2 == IF district_col # None
              THEN m1 \/ (row[ColIndex(columns, district_col)] = Sentinel)
              ELSE m1
    IN  m2

\* kept_rows taken to be the whole chunk
KeptRowsAll(columns, chunk, sc, dc) == chunk

\* chunk[mask], chunk[~mask]
RemovedRows(columns, chunk, sc, dc) ==
    SelectSeq(chunk, LAMBDA r : Mask(columns, r, sc, dc))
KeptRows(columns, chunk, sc, dc) ==
    SelectSeq(chunk, LAMBDA r : ~Mask(columns, r, sc, dc))

\* header=True on every chunk
WriteHeaderAlways(first_chunk) == TRUE

\* header= argument of the two to_csv calls that write the output file
WriteHeader(first_chunk) == first_chunk

\* the [SKIP] notice printed for every chunk
SkipNoticeAlways(first_chunk) == TRUE

\* guard of the [SKIP] notice
SkipNotice(first_chunk) == first_chunk

Notice(tag, rel, n) == [tag |-> tag, rel |-> rel, n |-> n]

\* lines 33-35
InitLocals ==
    [first_chunk |-> TRUE, removed_any |-> FALSE, log_lines |-> <<>>,
     pos |-> 0, nread |-> 0]

\* read_csv(chunksize=size) yields another chunk: the rows not yet read, or,
\* for a file of a header line only, one empty first chunk
HasChunk(f, l) == l.pos < Len(f.rows) \/ l.nread = 0

NextChunk(f, l, size) == SubSeq(f.rows, l.pos + 1, Min(l.pos + size, Len(f.rows)))

\* one iteration of the loop of lines 37-63: the locals after it, the lines
\* appended to the output file and the notices printed
ChunkStep(f, l, size) ==
    LET chunk == NextChunk(f, l, size)
        sd == StateDistrictColumns(f.header)
        state_col == sd[1]
        district_col == sd[2]
        read == [l EXCEPT !.pos = l.pos + Len(chunk), !.nread = l.nread + 1,
                          !.first_chunk = FALSE]
    IN  IF state_col = None /\ district_col = None
        THEN [loc |-> read,
              out |-> ToCsv(f.header, chunk, WriteHeader(l.first_chunk), ","),
              prints |-> IF SkipNotice(l.first_chunk)
                         THEN <<Notice("SKIP", f.rel, 0)>> ELSE <<>>]
        ELSE LET removed_rows == RemovedRows(f.header, chunk, state_col, district_col)
                 kept_rows == KeptRows(f.header, chunk, state_col, district_col)
             IN  [loc |-> IF removed_rows # <<>>
                          THEN [read EXCEPT
                                  !.removed_any = TRUE,
                                  !.log_lines = l.log_lines
                                      \o <<FileLine(f.rel)>>
                                      \o ToCsv(f.header, removed_rows, TRUE, "\t")
                                      \o <<BlankLine>>]
                          ELSE read,
                  out |-> ToCsv(f.header, kept_rows, WriteHeader(l.first_chunk), ","),
                  prints |-> IF removed_rows # <<>>
                             THEN <<Notice("REMOVE", f.rel, Len(removed_rows))>>
                             ELSE <<>>]

(* -------------------------------- main --------------------------------- *)
\* the log left in place
UnlinkLogSkipped(exists, content) == [exists |-> exists, content |-> content]

\* lines 81-82: LOG_FILE.unlink() when the log exists
UnlinkLog(exists, content) ==
    IF exists THEN [exists |-> FALSE, content |-> <<>>]
    ELSE [exists |-> exists, content |-> content]

\* line 85: the *.csv files of the scan, in scan order
CsvFiles(tree) == SelectSeq(tree, LAMBDA e : EndsWith(e.rel, CsvSuffix))

(* ------------------------------- state --------------------------------- *)
VARIABLES
    dataExists,     \* DATA_DIR.exists()
    data,           \* the entries under DATA_DIR, in scan order
    chunksize,      \* the chunksize of read_csv
    cleanedExists,  \* CLEANED_ROOT.exists()
    cleaned,        \* the files under CLEANED_ROOT: relative path -> lines
    logExists,      \* LOG_FILE.exists()
    logFile,        \* the lines of LOG_FILE
    console,        \* what the current run printed
    pc,             \* position of the script
    run,            \* number of the current run
    csv_files,      \* main's csv_files
    idx,            \* position of the for loop of line 91
    loc,            \* the locals of _process_file
    appended,       \* the lines _write_log appended during the current run
    in_columns,     \* argument of _state_district_columns (detection spec)
    detected        \* its result (detection spec)

vars == <<dataExists, data, chunksize, cleanedExists, cleaned, logExists, logFile,
          console, pc, run, csv_files, idx, loc, appended, in_columns, detected>>

fsVars == <<cleanedExists, cleaned, logExists, logFile>>
inputVars == <<dataExists, data, chunksize>>
detectVars == <<in_columns, detected>>

Init ==
    /\ \/ /\ dataExists = TRUE
          /\ data \in Trees
          /\ chunksize \in ChunkSizes
          /\ logExists = FALSE
          /\ logFile = <<>>
       \/ /\ dataExists = FALSE
          /\ data = <<>>
          /\ chunksize = CHUNKSIZE
          /\ \/ logExists = FALSE /\ logFile = <<>>
             \/ logExists = TRUE /\ logFile = StaleLog
    /\ cleanedExists = FALSE
    /\ cleaned = <<>>
    /\ console = <<>>
    /\ pc = "start"
    /\ run = 1
    /\ csv_files = <<>>
    /\ idx = 0
    /\ loc = InitLocals
    /\ appended = <<>>
    /\ in_columns = <<>>
    /\ detected = <<None, None>>

\* the log reset done before the directory check
MainRaiseAfterReset ==
    /\ pc = "start"
    /\ ~dataExists
    /\ pc' = "error"
    /\ logExists' = FALSE
    /\ logFile' = <<>>
    /\ UNCHANGED <<inputVars, cleanedExists, cleaned, console, run, csv_files, idx,
                   loc, appended, detectVars>>

\* lines 72-73
MainRaise ==
    /\ pc = "start"
    /\ ~dataExists
    /\ pc' = "error"
    /\ UNCHANGED <<inputVars, fsVars, console, run, csv_files, idx, loc, appended,
                   detectVars>>

\* lines 75-90
MainSetup ==
    /\ pc = "start"
    /\ dataExists
    /\ LET log == UnlinkLog(logExists, logFile)
           found == CsvFiles(data)
           c1 == <<Notice("INFO", IF cleanedExists THEN <<"e">> ELSE <<"c">>, 0)>>
           c2 == IF logExists THEN Append(c1, Notice("INFO", <<"l">>, 0)) ELSE c1
       IN  /\ cleanedExists' = TRUE
           /\ logExists' = log.exists
           /\ logFile' = log.content
           /\ csv_files' = found
           /\ IF found = <<>>
              THEN /\ console' = Append(c2, Notice("WARN", <<>>, 0))
                   /\ pc' = "done"
                   /\ idx' = 0
              ELSE /\ console' = Append(c2, Notice("INFO", <<"f">>, Len(found)))
                   /\ pc' = "file"
                   /\ idx' = 1
    /\ appended' = <<>>
    /\ UNCHANGED <<inputVars, cleaned, run, loc, detectVars>>

\* lines 29-35
BeginFile ==
    /\ pc = "file"
    /\ idx <= Len(csv_files)
    /\ loc' = InitLocals
    /\ pc' = "chunk"
    /\ UNCHANGED <<inputVars, fsVars, console, run, csv_files, idx, appended,
                   detectVars>>

\* lines 37-63, one chunk
ProcessChunk ==
    /\ pc = "chunk"
    /\ HasChunk(csv_files[idx], loc)
    /\ LET f == csv_files[idx]
           step == ChunkStep(f, loc, chunksize)
       IN  /\ loc' = step.loc
           /\ cleaned' = AppendFile(cleaned, f.rel, step.out)
           /\ console' = console \o step.prints
    /\ UNCHANGED <<inputVars, cleanedExists, logExists, logFile, pc, run, csv_files,
                   idx, appended, detectVars>>

\* lines 65-68, with _write_log (lines 21-25)
EndFile ==
    /\ pc = "chunk"
    /\ ~HasChunk(csv_files[idx], loc)
    /\ IF loc.removed_any /\ loc.log_lines # <<>>
       THEN /\ logExists' = TRUE
            /\ logFile' = logFile \o loc.log_lines
            /\ appended' = appended \o loc.log_lines
       ELSE UNCHANGED <<logExists, logFile, appended>>
    /\ console' = IF ~loc.removed_any
                  THEN Append(console, Notice("CLEAN", csv_files[idx].rel, 0))
                  ELSE console
    /\ idx' = idx + 1
    /\ pc' = "file"
    /\ UNCHANGED <<inputVars, cleanedExists, cleaned, run, csv_files, loc, detectVars>>

\* lines 94-95
MainFinish ==
    /\ pc = "file"
    /\ idx > Len(csv_files)
    /\ console' = console \o <<Notice("DONE", <<>>, 0), Notice("LOG", <<>>, 0)>>
    /\ pc' = "done"
    /\ UNCHANGED <<inputVars, fsVars, run, csv_files, idx, loc, appended, detectVars>>

\* lines 98-99: the script is run again, on the same data
Rerun ==
    /\ pc = "done"
    /\ run < MaxRuns
    /\ run' = run + 1
    /\ pc' = "start"
    /\ console' = <<>>
    /\ csv_files' = <<>>
    /\ idx' = 0
    /\ loc' = InitLocals
    /\ UNCHANGED <<inputVars, fsVars, appended, detectVars>>

Next ==
    \/ MainRaise
    \/ MainSetup
    \/ BeginFile
    \/ ProcessChunk
    \/ EndFile
    \/ MainFinish
    \/ Rerun

Spec == Init /\ [][Next]_vars

(* ------------------- column detection on its own ----------------------- *)
InitDetect ==
    /\ in_columns \in HeaderLists
    /\ detected = <<None, None>>
    /\ pc = "detect"
    /\ dataExists = FALSE
    /\ data = <<>>
    /\ chunksize = CHUNKSIZE
    /\ cleanedExists = FALSE
    /\ cleaned = <<>>
    /\ logExists = FALSE
    /\ logFile = <<>>
    /\ console = <<>>
    /\ run = 1
    /\ csv_files = <<>>
    /\ idx = 0
    /\ loc = InitLocals
    /\ appended = <<>>

\* line 38: a call of _state_district_columns
Detect ==
    /\ pc = "detect"
    /\ detected' = StateDistrictColumns(in_columns)
    /\ pc' = "detected"
    /\ UNCHANGED <<inputVars, fsVars, console, run, csv_files, idx, loc, appended,
                   in_columns>>

NextDetect == Detect

SpecDetect == InitDetect /\ [][NextDetect]_vars

(* ------------------------- reading the files --------------------------- *)
\* file i of csv_files has been processed to the end in the current run
Processed(i) ==
    /\ i \in 1..Len(csv_files)
    /\ \/ pc \in {"file", "chunk"} /\ i < idx
       \/ pc = "done"

\* file i of csv_files is being processed
InProgress(i) == pc = "chunk" /\ i = idx

Exists(rel) == rel \in DOMAIN cleaned

\* the cells of the lines of a file
Cells(lines) == [k \in 1..Len(lines) |-> lines[k].cells]

\* the data rows of an output file: the lines after the first
OutRows(rel) == Cells(Tail(cleaned[rel]))

IsFileLine(l) == l.sep = "" /\ Len(l.cells) = 2 /\ l.cells[1] = FilePrefix

\* line k of the log is a removed row of a record of file rel: a tab-separated
\* line that is not the header line after a FILE line, in a record opened by
\* 'FILE: rel'
IsLoggedRow(log, k, rel) ==
    /\ log[k].sep = "\t"
    /\ k > 1
    /\ ~IsFileLine(log[k - 1])
    /\ \E j \in 1..(k - 1) :
          /\ IsFileLine(log[j])
          /\ log[j].cells[2] = rel
          /\ \A m \in (j + 1)..k : ~IsFileLine(log[m])

RECURSIVE LoggedRowsUpTo(_, _, _)
LoggedRowsUpTo(log, rel, n) ==
    IF n = 0 THEN <<>>
    ELSE IF IsLoggedRow(log, n, rel)
         THEN Append(LoggedRowsUpTo(log, rel, n - 1), log[n].cells)
         ELSE LoggedRowsUpTo(log, rel, n - 1)

\* the removed rows the log holds for file rel, in log order
LoggedRows(log, rel) == LoggedRowsUpTo(log, rel, Len(log))

\* number of 'FILE: rel' lines of the log
FileLines(log, rel) == Cardinality({k \in 1..Len(log) : log[k] = FileLine(rel)})

RECURSIVE Pick(_, _, _)
\* the elements of rows[1..n] whose position is in the set keep
Pick(rows, keep, n) ==
    IF n = 0 THEN <<>>
    ELSE IF n \in keep THEN Append(Pick(rows, keep, n - 1), rows[n])
         ELSE Pick(rows, keep, n - 1)

\* a is b with some elements left out
IsSubseq(a, b) == \E keep \in SUBSET (1..Len(b)) : a = Pick(b, keep, Len(b))

\* the removal condition in the words of the specification
SpecRemoved(f, row) ==
    LET sd == StateDistrictColumns(f.header)
    IN  \/ sd[1] # None /\ row[ColIndex(f.header, sd[1])] = Sentinel
        \/ sd[2] # None /\ row[ColIndex(f.header, sd[2])] = Sentinel

NoRole(f) == StateDistrictColumns(f.header) = <<None, None>>

\* the first header, in header order, whose lowercased name contains word
FirstMatch(cols, word) ==
    IF \E i \in 1..Len(cols) : Contains(Lower(cols[i]), word)
    THEN cols[CHOOSE i \in 1..Len(cols) :
                 /\ Contains(Lower(cols[i]), word)
                 /\ \A j \in 1..(i - 1) : ~Contains(Lower(cols[j]), word)]
    ELSE None

RECURSIVE RunFile(_, _, _, _)
\* _process_file on file f with chunks of the given size, from locals l and
\* output lines out: the locals and the output lines after the last chunk
RunFile(f, l, out, size) ==
    IF HasChunk(f, l)
    THEN LET step == ChunkStep(f, l, size)
         IN  RunFile(f, step.loc, out \o step.out, size)
    ELSE [loc |-> l, out |-> out]

(* ------------------------------ claims --------------------------------- *)
FileAt(i) == csv_files[i]

\* the locals of _process_file are those of the file processed last
JustProcessed(i) == pc = "file" /\ i = idx - 1 /\ i \in 1..Len(csv_files)

\* C1: once _process_file has completed on a source file, an input row of it
\* appears in the output file if and only if it is not the case that a detected
\* state column holds "100000" in it or a detected district column holds
\* "100000" in it; with no role column detected every row appears.
C1_KeptIffNotSentinel ==
    \A i \in 1..Len(csv_files) :
        Processed(i) =>
            LET f == FileAt(i)
                out == OutRows(f.rel)
            IN  /\ Exists(f.rel)
                /\ \A k \in 1..Len(f.rows) :
                      (\E j \in 1..Len(out) : out[j] = f.rows[k])
                          <=> ~SpecRemoved(f, f.rows[k])
                /\ NoRole(f) =>
                      \A k \in 1..Len(f.rows) : \E j \in 1..Len(out) : out[j] = f.rows[k]

\* a processed file with both role columns, one row removed through its
\* district value alone and one row kept
C1_Witness ==
    \E i \in 1..Len(csv_files) :
        /\ Processed(i)
        /\ LET f == FileAt(i)
               sd == StateDistrictColumns(f.header)
           IN  /\ sd[1] # None /\ sd[2] # None /\ sd[1] # sd[2]
               /\ \E k \in 1..Len(f.rows) :
                     /\ f.rows[k][ColIndex(f.header, sd[1])] # Sentinel
                     /\ f.rows[k][ColIndex(f.header, sd[2])] = Sentinel
                     /\ \A j \in 1..Len(OutRows(f.rel)) : OutRows(f.rel)[j] # f.rows[k]
               /\ \E k \in 1..Len(f.rows) :
                     /\ ~SpecRemoved(f, f.rows[k])
                     /\ \E j \in 1..Len(OutRows(f.rel)) : OutRows(f.rel)[j] = f.rows[k]

\* C2: in a run that starts with an empty output tree, for every processed
\* source file the data rows of its output file and its removed rows in the
\* audit log together number the input rows, and the input rows split into the
\* two: each input position goes to exactly one of them.
C2_RowsPartitioned ==
    run = 1 =>
        \A i \in 1..Len(csv_files) :
            Processed(i) =>
                LET f == FileAt(i)
                    n == Len(f.rows)
                    out == OutRows(f.rel)
                    logged == LoggedRows(logFile, f.rel)
                IN  /\ Len(out) + Len(logged) = n
                    /\ \E keep \in SUBSET (1..n) :
                          /\ out = Pick(f.rows, keep, n)
                          /\ logged = Pick(f.rows, (1..n) \ keep, n)

\* a file of two rows read in two chunks, one row kept and one removed
C2_Witness ==
    /\ run = 1
    /\ \E i \in 1..Len(csv_files) :
          /\ JustProcessed(i)
          /\ loc.nread = 2
          /\ Len(FileAt(i).rows) = 2
          /\ Len(OutRows(FileAt(i).rel)) = 1
          /\ Len(LoggedRows(logFile, FileAt(i).rel)) = 1

\* C3: for every processed source file the data rows of the output file are a
\* subsequence of the input rows in input order, and so are the file's removed
\* rows in the audit log.
C3_OrderPreserved ==
    \A i \in 1..Len(csv_files) :
        Processed(i) =>
            /\ IsSubseq(OutRows(FileAt(i).rel), FileAt(i).rows)
            /\ IsSubseq(LoggedRows(logFile, FileAt(i).rel), FileAt(i).rows)

\* C4: when a run of main has ended, the output file of every source file it
\* processed holds one header line followed by that file's kept rows and
\* nothing else, whatever earlier runs left in the output tree.
C4_OutputOverwritten ==
    pc = "done" =>
        \A i \in 1..Len(csv_files) :
            LET f == FileAt(i)
                sd == StateDistrictColumns(f.header)
            IN  /\ Exists(f.rel)
                /\ cleaned[f.rel] =
                       ToCsv(f.header, KeptRows(f.header, f.rows, sd[1], sd[2]), TRUE, ",")

\* C5: when a run of main that passed the data-directory check has ended, the
\* audit log holds exactly the lines appended during that run, and does not
\* exist when the run appended none.
C5_LogOfLastRunOnly ==
    (pc = "done" /\ dataExists) =>
        /\ logFile = appended
        /\ logExists <=> appended # <<>>

\* a second run has ended and logged removals, after a first run that left a
\* log behind
C5_Witness ==
    /\ pc = "done"
    /\ run = 2
    /\ appended # <<>>
    /\ logExists

\* C6: with the data directory missing, main's step is the raise alone: the
\* output root is not created, the audit log is neither deleted nor changed, no
\* file is scanned or processed, nothing is printed, and the run ends in the
\* error state.
C6_MissingDataTouchesNothing ==
    [][(pc = "start" /\ ~dataExists) =>
          /\ pc' = "error"
          /\ UNCHANGED <<cleanedExists, cleaned, logExists, logFile, csv_files, idx,
                         console, appended>>]_vars

\* the run has failed with an earlier log still in place and no output root
C6_Witness ==
    /\ pc = "error"
    /\ ~dataExists
    /\ logExists
    /\ logFile = StaleLog
    /\ ~cleanedExists

\* C7: _state_district_columns returns, for each role, the first header in
\* header order whose lowercased name contains the role's word, and None when
\* there is none.
C7_FirstMatchInHeaderOrder ==
    pc = "detected" =>
        detected = <<FirstMatch(in_columns, StateWord),
                     FirstMatch(in_columns, DistrictWord)>>

\* C8: for a source file without state and district headers, in a run that
\* starts with an empty output tree the output file is the header line and the
\* input rows in order; nothing of the file is in the log buffer or the audit
\* log; and the [SKIP] notice of the file is printed exactly once, with the
\* first chunk.
C8_NoRoleFileCopied ==
    \A i \in 1..Len(csv_files) :
        LET f == FileAt(i)
            skips == {k \in 1..Len(console) : console[k] = Notice("SKIP", f.rel, 0)}
        IN  NoRole(f) =>
                /\ (Processed(i) /\ run = 1) =>
                      cleaned[f.rel] = ToCsv(f.header, f.rows, TRUE, ",")
                /\ (Processed(i) \/ InProgress(i)) =>
                      /\ FileLines(logFile, f.rel) = 0
                      /\ FileLines(appended, f.rel) = 0
                /\ InProgress(i) => loc.log_lines = <<>>
                /\ (Processed(i) \/ (InProgress(i) /\ loc.nread >= 1)) =>
                      /\ Cardinality(skips) = 1
                /\ (InProgress(i) /\ loc.nread = 0) => skips = {}

\* a file without role columns, of two rows, read in two chunks
C8_Witness ==
    /\ run = 1
    /\ \E i \in 1..Len(csv_files) :
          /\ JustProcessed(i)
          /\ NoRole(FileAt(i))
          /\ loc.nread = 2
          /\ Len(cleaned[FileAt(i).rel]) = 3

\* C9: the output file and the log lines of a processed file are those that
\* processing the file as one chunk gives, and a file with removed rows gets
\* one 'FILE:' line.
C9_ChunkingInvisible ==
    \A i \in 1..Len(csv_files) :
        (JustProcessed(i) /\ run = 1) =>
            LET f == FileAt(i)
                whole == RunFile(f, InitLocals, <<>>, CHUNKSIZE)
            IN  /\ cleaned[f.rel] = whole.out
                /\ loc.log_lines = whole.loc.log_lines
                /\ loc.removed_any => FileLines(loc.log_lines, f.rel) = 1

\* C10: in a run that starts with an empty output tree, an output file does
\* not exist before the first chunk of its source file, and from the first
\* chunk on its first line is the header line and no other line of it is.
C10_HeaderOnceFirst ==
    run = 1 =>
        \A i \in 1..Len(csv_files) :
            LET f == FileAt(i)
            IN  /\ (InProgress(i) /\ loc.nread = 0) => ~Exists(f.rel)
                /\ (Processed(i) \/ (InProgress(i) /\ loc.nread >= 1)) =>
                      /\ Exists(f.rel)
                      /\ cleaned[f.rel][1] = Line(",", f.header)
                      /\ {k \in 1..Len(cleaned[f.rel]) :
                             cleaned[f.rel][k].cells = f.header} = {1}

\* a file whose first chunk is removed whole and whose second chunk is kept
C10_Witness ==
    /\ run = 1
    /\ \E i \in 1..Len(csv_files) :
          /\ JustProcessed(i)
          /\ ~NoRole(FileAt(i))
          /\ loc.nread = 2
          /\ SpecRemoved(FileAt(i), FileAt(i).rows[1])
          /\ ~SpecRemoved(FileAt(i), FileAt(i).rows[2])
          /\ Len(cleaned[FileAt(i).rel]) = 2

====
